---- MODULE Spec2Model ----
(***************************************************************************)
(* Percepta backend (src/weights/app.py): the bearer-token gate            *)
(* (token_required / verify_supabase_jwt) and the protected routes         *)
(* /upload and /api/history, served by a threaded Flask server.            *)
(***************************************************************************)
EXTENDS Integers, Sequences, FiniteSets, TLC

VARIABLES
    SUPABASE_JWT_SECRET,  \* line 59: the provider signing secret, or None
    supabase,             \* lines 45-54: the datastore client, or None
    model,                \* line 73: the lazily loaded detector, or None
    files,                \* the contents of UPLOAD_FOLDER, by path
    db,                   \* the rows of the skin_analyses table, oldest first
    now,                  \* the wall clock
    req                   \* per worker thread: the request it is serving

vars == <<SUPABASE_JWT_SECRET, supabase, model, files, db, now, req>>

(* ------------------------------ bounds -------------------------------- *)
\* The clock runs from 0 to MaxTime.
MaxTime == 2
\* The expires-at / issued-at instants carried by the tokens of the model.
ExpAt == 1
\* Rows the skin_analyses table accepts before its inserts fail.
MaxRows == 1

Threads == {"w1", "w2"}

(* ------------------------- Python-level helpers ------------------------ *)
\* Python's None; str(None) = "None", which is what the f-strings print.
None == "None"

\* dict.get(key): the value, or None when the key is absent.
Get(d, k) == IF k \in DOMAIN d THEN d[k] ELSE None

\* Truth value of an optional string: None and "" are falsy.
Truthy(x) == x # None /\ x # ""

RECURSIVE Remove(_, _)
\* str.replace(marker, ""): EVERY occurrence of the marker is removed.
Remove(s, marker) ==
    IF s = <<>> THEN <<>>
    ELSE IF Head(s) = marker THEN Remove(Tail(s), marker)
    ELSE <<Head(s)>> \o Remove(Tail(s), marker)

(* ------------------------------- tokens -------------------------------- *)
\* A string is written as the sequence of its pieces.  The scheme marker is
\* one piece; a compact JWT is three pieces (header, payload, signature).
SCHEME == "Bearer "

Keys == {"k1", "k2"}

\* The claims sets the tokens of the model carry, by payload segment.
Claims ==
    [ p_supa  |-> [email |-> "a@x", sub |-> "u1", aud |-> "authenticated", exp |-> ExpAt],
      p_self  |-> [sub |-> "a@x", iat |-> ExpAt - 1, exp |-> ExpAt],
      p_nosub |-> [email |-> "b@x", exp |-> ExpAt],
      p_bare  |-> [email |-> "c@x"],
      p_empty |-> [email |-> "", sub |-> "u1"],
      p_anon  |-> [aud |-> "authenticated"] ]

Pids == DOMAIN Claims

Sig(k) == IF k = "k1" THEN "sig:k1" ELSE "sig:k2"

\* jwt.encode(claims, key, "HS256")
jwt_encode(pid, k) == <<"hs256", pid, Sig(k)>>

\* The tokens of the model: provider-style and self-issued ones signed with
\* the deployment's secret k1, and two signed with another key.
Tokens ==
    {jwt_encode(p, "k1") : p \in Pids \ {"p_bare"}}
      \cup {jwt_encode("p_supa", "k2"), jwt_encode("p_bare", "k2")}

\* Strings that are not a token.
Garbage == { <<>>, <<"garbage">>, <<"hs256", SCHEME, "p_supa", "sig:k1">> }

\* Values of the Authorization header.
AuthValues ==
    {<<>>}
      \cup {<<SCHEME>> \o t : t \in Tokens \cup Garbage}
      \cup {<<"Basic ">> \o jwt_encode("p_supa", "k1"),
            <<"bearer ">> \o jwt_encode("p_supa", "k1"),
            <<"Token ", SCHEME>> \o jwt_encode("p_supa", "k1")}

\* request.headers: with or without an Authorization entry.
NoHeaders == [k \in {} |-> <<>>]
Headers == {NoHeaders} \cup {[Authorization |-> a] : a \in AuthValues}

\* Splitting a compact token into its three segments and reading the claims.
WellFormed(token) ==
    /\ Len(token) = 3
    /\ token[1] = "hs256"
    /\ token[2] \in Pids
    /\ token[3] \in {Sig(k) : k \in Keys}

\* An expiry check that a decode applies when claim validation is on.
Expired(payload, t) == "exp" \in DOMAIN payload /\ payload.exp <= t

\* A decode that forgets options={"verify_signature": False}'s effect on the
\* registered claims: expires-at is validated while parsing.
jwt_decode_validating_exp(token) ==
    IF ~WellFormed(token) THEN [ok |-> FALSE, exc |-> "DecodeError"]
    ELSE IF Expired(Claims[token[2]], now) THEN [ok |-> FALSE, exc |-> "ExpiredSignatureError"]
    ELSE [ok |-> TRUE, payload |-> Claims[token[2]]]

\* jwt.decode(token, options={"verify_signature": False}): the claims, with no
\* signature check and (PyJWT 2) no validation of exp / aud / iat.
jwt_decode_unverified(token) ==
    IF WellFormed(token)
    THEN [ok |-> TRUE, payload |-> Claims[token[2]]]
    ELSE [ok |-> FALSE, exc |-> "DecodeError"]

\* jwt.decode(token, SUPABASE_JWT_SECRET, algorithms=["HS256"],
\* audience="authenticated"): "ok" or the InvalidTokenError raised.  PyJWT
\* checks the signature first, then exp, then aud.
jwt_decode_verified(token, key, t) ==
    LET payload == Claims[token[2]] IN
    IF token[3] # Sig(key) THEN "InvalidSignatureError"
    ELSE IF Expired(payload, t) THEN "ExpiredSignatureError"
    ELSE IF "aud" \notin DOMAIN payload THEN "MissingRequiredClaimError"
    ELSE IF payload.aud # "authenticated" THEN "InvalidAudienceError"
    ELSE "ok"

(* ----------------------------- auth helpers ---------------------------- *)
\* verify_supabase_jwt with the email taken from the subject claim when the
\* email claim is missing.
verify_with_sub_fallback(token, secret, t) ==
    LET d == jwt_decode_unverified(token) IN
    IF ~d.ok THEN [email |-> None, user_id |-> None, log |-> <<"jwt-decode-error">>]
    ELSE
      LET user_id == Get(d.payload, "sub")
          email == IF Truthy(Get(d.payload, "email")) THEN Get(d.payload, "email") ELSE user_id
      IN
      IF ~Truthy(email) THEN [email |-> None, user_id |-> None, log |-> <<"no-email">>]
      ELSE [email |-> email, user_id |-> user_id, log |-> <<>>]

\* verify_supabase_jwt whose signature check rejects instead of logging.
verify_rejecting_bad_signature(token, secret, t) ==
    LET d == jwt_decode_unverified(token) IN
    IF ~d.ok THEN [email |-> None, user_id |-> None, log |-> <<"jwt-decode-error">>]
    ELSE
      LET email == Get(d.payload, "email")
          user_id == Get(d.payload, "sub")
      IN
      IF ~Truthy(email) THEN [email |-> None, user_id |-> None, log |-> <<"no-email">>]
      ELSE IF secret # None /\ jwt_decode_verified(token, secret, t) # "ok"
        THEN [email |-> None, user_id |-> None, log |-> <<"jwt-decode-error">>]
      ELSE [email |-> email, user_id |-> user_id, log |-> <<>>]

\* verify_supabase_jwt(token): (email, user_id), or (None, None); log is what
\* it prints.
verify_supabase_jwt(token, secret, t) ==
    LET d == jwt_decode_unverified(token) IN
    IF ~d.ok THEN [email |-> None, user_id |-> None, log |-> <<"jwt-decode-error">>]
    ELSE
      LET email == Get(d.payload, "email")
          user_id == Get(d.payload, "sub")
      IN
      IF ~Truthy(email) THEN [email |-> None, user_id |-> None, log |-> <<"no-email">>]
      ELSE
        LET checked ==
              IF secret = None THEN <<>>
              ELSE LET r == jwt_decode_verified(token, secret, t) IN
                   IF r = "ok" THEN <<"jwt-verified">> ELSE <<"sig-check-failed", r>>
        IN [email |-> email, user_id |-> user_id, log |-> checked]

\* request.headers.get("Authorization") is truthy: present and not "".
HasAuth(headers) == "Authorization" \in DOMAIN headers /\ headers.Authorization # <<>>

\* auth.startswith("Bearer ")
StartsWithScheme(auth) == Len(auth) > 0 /\ Head(auth) = SCHEME

MissingBody == [error |-> <<"Token is missing">>]
InvalidBody == [error |-> <<"Invalid token">>]
NoBody == [error |-> <<>>]

\* The gate's answer when it stops the request.
Reject(body, log) ==
    [passed |-> FALSE, status |-> 401, body |-> body,
     email |-> None, user_id |-> None, log |-> log]

\* The gate's answer when it calls the wrapped handler with the identity.
Pass(v) ==
    [passed |-> TRUE, status |-> 0, body |-> NoBody,
     email |-> v.email, user_id |-> v.user_id, log |-> v.log \o <<"authenticated">>]

\* A gate that only tests for the presence of the header.
token_required_any_scheme(headers, secret, t) ==
    IF ~HasAuth(headers) THEN Reject(MissingBody, <<"no-auth">>)
    ELSE
      LET v == verify_supabase_jwt(Remove(headers.Authorization, SCHEME), secret, t) IN
      IF ~Truthy(v.email) THEN Reject(InvalidBody, v.log \o <<"invalid-token">>)
      ELSE Pass(v)

\* token_required.decorated up to the call of the wrapped handler: either the
\* 401 it returns, or the identity it hands to the handler.
token_required(headers, secret, t) ==
    IF ~HasAuth(headers) \/ ~StartsWithScheme(headers.Authorization)
      THEN Reject(MissingBody, <<"no-auth">>)
    ELSE
      LET token == Remove(headers.Authorization, SCHEME)
          v == verify_supabase_jwt(token, secret, t)
      IN
      IF ~Truthy(v.email) THEN Reject(InvalidBody, v.log \o <<"invalid-token">>)
      ELSE Pass(v)

(* ------------------------------ the routes ----------------------------- *)
class_names ==
    [c \in 0..13 |->
       CASE c = 0 -> "Dark Circle" [] c = 1 -> "Eyebag" [] c = 2 -> "acne scar"
         [] c = 3 -> "blackhead" [] c = 4 -> "dark spot" [] c = 5 -> "freckle"
         [] c = 6 -> "melasma" [] c = 7 -> "nodules" [] c = 8 -> "papules"
         [] c = 9 -> "pustules" [] c = 10 -> "skin redness" [] c = 11 -> "vascular"
         [] c = 12 -> "whitehead" [] c = 13 -> "wrinkle"]

\* The classes the detector boxes in each image of the model.
Boxes(img) == IF img = "imgA" THEN <<3, 8, 3>> ELSE <<13, 14>>

\* Lines 242-248: the set of class names of the boxes.
Predicted(img) ==
    {IF Boxes(img)[i] \in DOMAIN class_names THEN class_names[Boxes(img)[i]] ELSE "unknown"
       : i \in 1..Len(Boxes(img))}

\* What requests.get + Image.open give for each URL: an image or a fault.
Web ==
    [ url_a    |-> [ok |-> TRUE, img |-> "imgA"],
      url_b    |-> [ok |-> TRUE, img |-> "imgB"],
      url_down |-> [ok |-> FALSE, exc |-> "ConnectionError: host 10.0.0.7 unreachable"] ]

\* request.files / request.form of an /upload request.
NoForm == [k \in {} |-> <<>>]
Forms ==
    {NoForm}
      \cup {[imageURL |-> u] : u \in DOMAIN Web}
      \cup {[image |-> [filename |-> "remote.jpg", content |-> "imgB"]]}

NoFile == "NoFile"
NoPath == <<>>
Paths == {<<u, n>> : u \in {"u1", None}, n \in {"remote.jpg"}}

\* os.path.join(UPLOAD_FOLDER, f"{user_id}_{name}"): None prints as "None".
upload_path(user_id, name) == <<user_id, name>>

FallbackAdvice == "Unable to generate recommendations at this time."

\* Lines 286-290: the handler's except clause.
upload_error(exc) ==
    [status |-> 500, body |-> [error |-> <<"AI processing failed: ", exc>>]]

\* Lines 279-284: the analysis response.
upload_ok(predicted, recommendations, email, user_id) ==
    [status |-> 200,
     body |-> [predicted_problems |-> predicted, recommendations |-> recommendations,
               user_email |-> email, user_id |-> user_id]]

\* A store step whose insert fault is not caught.
store_analysis_unguarded(client, rows, row, insert_ok) ==
    IF client = None THEN [db |-> rows, raised |-> FALSE, log |-> <<>>]
    ELSE IF insert_ok THEN [db |-> Append(rows, row), raised |-> FALSE, log |-> <<"saved">>]
    ELSE [db |-> rows, raised |-> TRUE, log |-> <<"save-failed">>]

\* Lines 260-276: the optional insert; its fault is printed and swallowed.
store_analysis(client, rows, row, insert_ok) ==
    IF client = None THEN [db |-> rows, raised |-> FALSE, log |-> <<>>]
    ELSE IF insert_ok THEN [db |-> Append(rows, row), raised |-> FALSE, log |-> <<"saved">>]
    ELSE [db |-> rows, raised |-> FALSE, log |-> <<"save-failed">>]

HistoryLimit == 10

RECURSIVE Newest(_, _, _)
\* Lines 302-307: the user's rows, newest first, at most n of them.
Newest(rows, user_id, n) ==
    IF rows = <<>> \/ n = 0 THEN <<>>
    ELSE LET last == rows[Len(rows)]
             rest == SubSeq(rows, 1, Len(rows) - 1)
         IN IF last.user_id = user_id
              THEN <<last>> \o Newest(rest, user_id, n - 1)
              ELSE Newest(rest, user_id, n)

\* Faults the collaborators raise inside the handler's try block.
LoadFault == "FileNotFoundError: /srv/app/best.pt"
DetectFault == "RuntimeError: out of memory at 0x7f3a"
InsertFault == "APIError: relation skin_analyses is full"

(* ---------------------------- the state machine ------------------------ *)
NoResponse == [status |-> 0, body |-> NoBody]

Idle ==
    [pc |-> "idle", headers |-> NoHeaders, email |-> None, user_id |-> None,
     log |-> <<>>, path |-> NoPath, supplied |-> None, analysed |-> None,
     predicted |-> {}, response |-> NoResponse]

\* The request is answered: what the handler held is dropped.
Answer(r, response, log) ==
    [r EXCEPT !.pc = "done", !.response = response, !.log = r.log \o log,
              !.path = NoPath, !.supplied = None, !.analysed = None, !.predicted = {}]

\* The deployment after start-up, its provider secret configured, with or
\* without a datastore.
Init ==
    /\ SUPABASE_JWT_SECRET = "k1"
    /\ supabase \in {None, "client"}
    /\ model = None
    /\ files = [p \in Paths |-> NoFile]
    /\ db = <<>>
    /\ now = 0
    /\ req = [t \in Threads |-> Idle]

\* Lines 152-171: a worker takes a request for `route`, with headers drawn
\* from hs, through the gate.
Request(t, hs, routes) ==
    /\ req[t].pc \in {"idle", "done"}
    /\ \E headers \in hs, route \in routes :
         LET g == token_required(headers, SUPABASE_JWT_SECRET, now) IN
         req' = [req EXCEPT ![t] =
                   IF g.passed
                     THEN [Idle EXCEPT !.pc = route, !.headers = headers,
                                       !.email = g.email, !.user_id = g.user_id,
                                       !.log = g.log]
                     ELSE [Idle EXCEPT !.pc = "done", !.headers = headers, !.log = g.log,
                                       !.response = [status |-> g.status, body |-> g.body]]]
    /\ UNCHANGED <<SUPABASE_JWT_SECRET, supabase, model, files, db, now>>

\* Lines 211-233: read the form (drawn from fs) and save the image under
\* UPLOAD_FOLDER.
UploadSave(t, fs) ==
    /\ req[t].pc = "/upload"
    /\ \E form \in fs :
         LET has_image == "image" \in DOMAIN form
             has_url == "imageURL" \in DOMAIN form
         IN
         IF ~has_image /\ ~has_url
           THEN /\ req' = [req EXCEPT ![t] =
                           Answer(@, [status |-> 400,
                                      body |-> [error |-> <<"No image provided">>]], <<>>)]
                /\ UNCHANGED files
         ELSE IF has_image
           THEN LET path == upload_path(req[t].user_id, form.image.filename) IN
                /\ files' = [files EXCEPT ![path] = form.image.content]
                /\ req' = [req EXCEPT ![t].pc = "load", ![t].path = path,
                                      ![t].supplied = form.image.content]
         ELSE LET got == Web[form.imageURL]
                  path == upload_path(req[t].user_id, "remote.jpg")
              IN
              IF got.ok
                THEN /\ files' = [files EXCEPT ![path] = got.img]
                     /\ req' = [req EXCEPT ![t].pc = "load", ![t].path = path,
                                           ![t].supplied = got.img]
                ELSE /\ req' = [req EXCEPT ![t] =
                                  Answer(@, upload_error(got.exc), <<"upload-error">>)]
                     /\ UNCHANGED files
    /\ UNCHANGED <<SUPABASE_JWT_SECRET, supabase, model, db, now>>

\* Lines 75-86, 237: load_model().
UploadLoadModel(t) ==
    /\ req[t].pc = "load"
    /\ \/ /\ model' = "YOLO"
          /\ req' = [req EXCEPT ![t].pc = "detect"]
       \/ /\ model = None
          /\ model' = None
          /\ req' = [req EXCEPT ![t] = Answer(@, upload_error(LoadFault), <<"upload-error">>)]
    /\ UNCHANGED <<SUPABASE_JWT_SECRET, supabase, files, db, now>>

\* Lines 241-248: run the detector on the file at image_path.
UploadDetect(t) ==
    /\ req[t].pc = "detect"
    /\ \/ LET img == files[req[t].path] IN
          req' = [req EXCEPT ![t].pc = "advise", ![t].analysed = img,
                                ![t].predicted = Predicted(img)]
       \/ req' = [req EXCEPT ![t] = Answer(@, upload_error(DetectFault), <<"upload-error">>)]
    /\ UNCHANGED <<SUPABASE_JWT_SECRET, supabase, model, files, db, now>>

\* Lines 251-284: advice, the optional insert, the response.
UploadFinish(t) ==
    /\ req[t].pc = "advise"
    /\ \E recommendations \in {"advice", FallbackAdvice}, insert_ok \in BOOLEAN :
         LET r == req[t]
             row == [user_id |-> r.user_id, email |-> r.email,
                     detected_issues |-> r.predicted, recommendations |-> recommendations]
             s == store_analysis(supabase, db, row, insert_ok /\ Len(db) < MaxRows)
         IN
         /\ db' = s.db
         /\ req' = [req EXCEPT ![t] =
                      IF s.raised
                        THEN Answer(@, upload_error(InsertFault), s.log \o <<"upload-error">>)
                        ELSE Answer(@, upload_ok(r.predicted, recommendations,
                                                 r.email, r.user_id), s.log)]
    /\ UNCHANGED <<SUPABASE_JWT_SECRET, supabase, model, files, now>>

\* Lines 297-314: get_history.
History(t) ==
    /\ req[t].pc = "/api/history"
    /\ IF supabase = None
         THEN req' = [req EXCEPT ![t] =
                        Answer(@, [status |-> 500,
                                   body |-> [error |-> <<"Database not connected">>]], <<>>)]
         ELSE \/ req' = [req EXCEPT ![t] =
                          Answer(@, [status |-> 200,
                                     body |-> [history |->
                                                 Newest(db, req[t].user_id, HistoryLimit)]],
                                 <<>>)]
              \/ req' = [req EXCEPT ![t] =
                          Answer(@, [status |-> 500,
                                     body |-> [error |-> <<"Failed to fetch history">>]],
                                 <<"history-error">>)]
    /\ UNCHANGED <<SUPABASE_JWT_SECRET, supabase, model, files, db, now>>

\* Time passes.
Tick ==
    /\ now < MaxTime
    /\ now' = now + 1
    /\ UNCHANGED <<SUPABASE_JWT_SECRET, supabase, model, files, db, req>>

(* The threaded server handling uploads: two workers, each request's handler *)
(* interleaved statement group by statement group with the other's.          *)
UploadHeaders ==
    {NoHeaders} \cup {[Authorization |-> <<SCHEME>> \o jwt_encode(p, "k1")] :
                        p \in {"p_supa", "p_nosub"}}

Next ==
    \/ \E t \in Threads : Request(t, UploadHeaders, {"/upload"})
    \/ \E t \in Threads : UploadSave(t, Forms)
    \/ \E t \in Threads : UploadLoadModel(t)
    \/ \E t \in Threads : UploadDetect(t)
    \/ \E t \in Threads : UploadFinish(t)

Spec == Init /\ [][Next]_vars

(* The gate under every header of the model, over time: the requests are for *)
(* /api/history or are /upload requests that carry no image.                 *)
NextGate ==
    \/ \E t \in Threads : Request(t, Headers, {"/upload", "/api/history"})
    \/ \E t \in Threads : UploadSave(t, {NoForm})
    \/ \E t \in Threads : History(t)
    \/ Tick

\* Either configuration of the provider secret and of the datastore.
InitGate ==
    /\ SUPABASE_JWT_SECRET \in {None, "k1"}
    /\ supabase \in {None, "client"}
    /\ model = None
    /\ files = [p \in Paths |-> NoFile]
    /\ db = <<>>
    /\ now = 0
    /\ req = [t \in Threads |-> Idle]

SpecGate == InitGate /\ [][NextGate]_vars

(* ------------------------------- vocabulary ---------------------------- *)
\* The header carries "Bearer <t>"; Presented is the <t>.
IsBearer(h) ==
    /\ "Authorization" \in DOMAIN h
    /\ Len(h.Authorization) > 0
    /\ h.Authorization[1] = SCHEME
Presented(h) == Tail(h.Authorization)

\* The worker has taken its request through the gate.
Gated(r) == r.pc # "idle"

\* The three terminal states of the gate, read off a worker's record.
RejectedMissing(r) ==
    r.pc = "done" /\ r.response = [status |-> 401, body |-> MissingBody] /\ r.email = None
RejectedInvalid(r) ==
    r.pc = "done" /\ r.response = [status |-> 401, body |-> InvalidBody] /\ r.email = None
Authorized(r, email, user_id) ==
    /\ r.pc # "idle"
    /\ r.response.status # 401
    /\ r.email = email
    /\ r.user_id = user_id

\* Worker t takes a new request through the gate in this step.
GateStep(t) ==
    /\ req[t].pc \in {"idle", "done"}
    /\ req'[t] # req[t]

\* Records of a verification attempt in a worker's log.
VerificationLogs ==
    {"jwt-decode-error", "no-email", "jwt-verified", "sig-check-failed",
     "invalid-token", "authenticated"}
Logged(r, what) == \E i \in DOMAIN r.log : r.log[i] = what

(* --------------------------------- claims ------------------------------ *)
\* C1: a request whose Authorization header is absent, empty, or does not
\* start with "Bearer " is answered 401 {"error": "Token is missing"}; no
\* verification is attempted and the wrapped handler is not invoked.
C1_MissingRejected ==
    \A t \in Threads :
      (Gated(req[t]) /\ ~IsBearer(req[t].headers)) =>
        /\ RejectedMissing(req[t])
        /\ ~\E w \in VerificationLogs : Logged(req[t], w)

\* C1 witness: a header with another scheme was answered "Token is missing".
C1_Witness ==
    \E t \in Threads :
      /\ "Authorization" \in DOMAIN req[t].headers
      /\ req[t].headers.Authorization # <<>>
      /\ req[t].headers.Authorization[1] = "Basic "
      /\ RejectedMissing(req[t])

\* C2: a request carrying "Bearer <t>" where t cannot be parsed as a token
\* is answered 401 "Invalid token" (never a 500) and the wrapped handler is
\* not invoked.
C2_GarbageRejected ==
    \A t \in Threads :
      (Gated(req[t]) /\ IsBearer(req[t].headers) /\ ~WellFormed(Presented(req[t].headers)))
        => RejectedInvalid(req[t])

\* C3: a token signed with the configured secret whose expires-at is in the
\* past at the time of the request is rejected with 401 "Invalid token" and
\* the handler is not invoked.
C3_ExpiredRejected ==
    [][\A t \in Threads :
         LET h == req'[t].headers IN
         ( /\ GateStep(t)
           /\ IsBearer(h)
           /\ WellFormed(Presented(h))
           /\ SUPABASE_JWT_SECRET # None
           /\ Presented(h)[3] = Sig(SUPABASE_JWT_SECRET)
           /\ "exp" \in DOMAIN Claims[Presented(h)[2]]
           /\ Claims[Presented(h)[2]].exp < now )
         => RejectedInvalid(req'[t])]_vars

\* C4: a self-issued token {subject = email, issued-at, expires-at}, signed
\* with the configured secret and not yet expired, is Authorized with the
\* subject as email and no subject_id, and the handler is invoked.
C4_SelfIssuedAuthorized ==
    [][\A t \in Threads :
         LET h == req'[t].headers IN
         ( /\ GateStep(t)
           /\ IsBearer(h)
           /\ SUPABASE_JWT_SECRET # None
           /\ Presented(h) = jwt_encode("p_self", SUPABASE_JWT_SECRET)
           /\ Claims.p_self.exp > now )
         => Authorized(req'[t], Claims.p_self.sub, None)]_vars

Outcome(r) ==
    [authorized |-> r.email # None, email |-> r.email, user_id |-> r.user_id,
     rejection |-> IF r.response.status = 401 THEN r.response.body ELSE NoBody]

\* C7: the same header presented twice, at any two times and with other
\* requests in between, gets the same outcome and identity; and a step of
\* the gate leaves the secret, the loaded model, the datastore client, the
\* datastore contents and the upload folder as they were.
C7_Idempotent ==
    /\ [](\A t1, t2 \in Threads :
            (Gated(req[t1]) /\ Gated(req[t2]) /\ req[t1].headers = req[t2].headers)
              => Outcome(req[t1]) = Outcome(req[t2]))
    /\ [][\A t \in Threads :
            GateStep(t) => UNCHANGED <<SUPABASE_JWT_SECRET, supabase, model, files, db>>]_vars

\* C7 witness: two workers hold the same token, taken through the gate
\* before and after its expiry, with the same identity.
C7_Witness ==
    \E t1, t2 \in Threads :
      /\ t1 # t2
      /\ req[t1].headers = req[t2].headers
      /\ IsBearer(req[t1].headers)
      /\ Logged(req[t1], "jwt-verified")
      /\ Logged(req[t2], "ExpiredSignatureError")
      /\ Outcome(req[t1]) = Outcome(req[t2])
      /\ req[t1].email = "a@x"

\* The texts of the faults the collaborators raise.
FaultTexts == {Web[u].exc : u \in {v \in DOMAIN Web : ~Web[v].ok}} \cup {LoadFault, DetectFault}

\* C8: the 500 an /upload request gets after a fault in image fetching,
\* model loading or detection never carries the text of the exception.
C8_Redacted ==
    \A t \in Threads :
      (req[t].pc = "done" /\ req[t].response.status = 500) =>
        \A i \in DOMAIN req[t].response.body.error :
          req[t].response.body.error[i] \notin FaultTexts

\* C9: once detection has succeeded, the request is answered 200 with
\* predicted_problems, recommendations, user_email and user_id, whether the
\* datastore is absent, accepts the insert or raises on it.
C9_StoreOptional ==
    [][\A t \in Threads :
         (req[t].pc = "advise" /\ req'[t].pc = "done") =>
           /\ req'[t].response.status = 200
           /\ DOMAIN req'[t].response.body =
                {"predicted_problems", "recommendations", "user_email", "user_id"}
           /\ req'[t].response.body.predicted_problems = req[t].predicted
           /\ req'[t].response.body.user_email = req[t].email
           /\ req'[t].response.body.user_id = req[t].user_id]_vars

\* C9 witness: the insert raised and the analysis was still returned.
C9_Witness ==
    \E t \in Threads :
      /\ supabase # None
      /\ req[t].pc = "done"
      /\ Logged(req[t], "save-failed")
      /\ req[t].response.status = 200
      /\ req[t].response.body.predicted_problems # {}

\* C10: detection runs on the image the same request supplied.
C10_Isolated ==
    \A t \in Threads : req[t].pc = "advise" => req[t].analysed = req[t].supplied
====
